---- MODULE Spec2Model ----
(***************************************************************************)
(* A model of rebase-list.py: the commit correlation pipeline of main()    *)
(* (symmetric difference, the two ThreadPool runs that fill the patch-id   *)
(* maps, duplicate detection, revert resolution, upstream presence, the    *)
(* summary and the report), and the header parsing of                      *)
(* get_commit_patch_id().                                                  *)
(*                                                                         *)
(* A commit hash is a sequence of digits; a revert token is a (possibly    *)
(* shorter) sequence of digits, <<>> standing for "".  A Python dict is a  *)
(* sequence of entries in insertion order, because the code depends on the *)
(* iteration order of its dicts.  `returned` and `raised` record what the  *)
(* gateway answered; the program does not read them.                       *)
(***************************************************************************)
EXTENDS Integers, Sequences, FiniteSets, TLC

\* ------------------------------------------------------------------ bounds
MaxBranch == 3
MaxUpstream == 2
\* chunksize=256 of pool.imap_unordered, scaled down so that a commit list of
\* MaxBranch commits is split into more than one chunk.
ChunkSize == 2

\* the commits `git rev-list` can name: full hashes, all of one length
CommitRefs == {<<1, 1>>, <<1, 2>>, <<2, 1>>, <<2, 2>>}
\* what `git patch-id` can answer for a commit: "" when the output is empty
PatchHashes == {"", "F1", "F2"}
\* what REVERTS_REGEX can capture from a message: <<>> is "no revert marker"
RevertTokens == {<<>>, <<1>>, <<1, 2>>}

\* Optional[str]: None
None == <<>>

VARIABLES
    pc,                              \* position in main()
    has_in_branch_not_in_upstream,   \* list[str]
    has_in_upstream_not_in_branch,   \* list[str]
    pending,                         \* chunks of the running pool not yet completed
    branch_patch_id_map,             \* dict[str, CommitInfo], in insertion order
    upstream_patch_id_map,           \* dict[str, CommitInfo], in insertion order
    duplicates,                      \* dict[str, list[str]]
    reverted_from_branch,            \* dict[str, str]
    reverts_from_upstream,           \* set[str]
    has_in_brunch_but_found_in_upstream, \* dict[str, list[str]]
    empty_commits,                   \* int
    summary,                         \* the printed counters, <<>> until printed
    report,                          \* the printed per-commit lines
    returned,                        \* what get_commit_patch_id returned, per commit
    raised,                          \* the gateway calls that raised
    show_stdout,                     \* get_commit_patch_id: lines of `git show`
    extracted                        \* get_commit_patch_id: the parsed fields

pipeVars == <<pc, has_in_branch_not_in_upstream, has_in_upstream_not_in_branch,
              pending, branch_patch_id_map, upstream_patch_id_map, duplicates,
              reverted_from_branch, reverts_from_upstream,
              has_in_brunch_but_found_in_upstream, empty_commits, summary, report,
              returned, raised>>
extractVars == <<show_stdout, extracted>>
vars == <<pipeVars, extractVars>>

\* ------------------------------------------------------------ list helpers
Range(s) == {s[i] : i \in 1..Len(s)}

InjectiveSeqs(S, n) ==
    {s \in UNION {[1..k -> S] : k \in 0..n} :
        \A i, j \in 1..Len(s) : i # j => s[i] # s[j]}

RECURSIVE Reversed(_)
Reversed(s) == IF s = <<>> THEN <<>> ELSE Append(Reversed(Tail(s)), Head(s))

Min(a, b) == IF a < b THEN a ELSE b

\* str.startswith
StartsWith(s, prefix) ==
    /\ Len(prefix) <= Len(s)
    /\ \A i \in 1..Len(prefix) : s[i] = prefix[i]

\* ----------------------------------------------------------- dict helpers
\* A dict is a sequence of [key, value] entries with distinct keys.
Keys(d) == [i \in 1..Len(d) |-> d[i].key]
KeySet(d) == {d[i].key : i \in 1..Len(d)}
Get(d, k) == d[CHOOSE i \in 1..Len(d) : d[i].key = k].value

\* a dict used for lookups and len() only is a function; {} is the empty one
EmptyDict == <<>>
Put(f, k, v) == [x \in (DOMAIN f) \cup {k} |-> IF x = k THEN v ELSE f[x]]

\* ------------------------------------------------------------- CommitInfo
\* author, date and message_first_line are copied unchanged from the parse
\* (see get_commit_patch_id below) to the report line and read nowhere else.
CommitInfo(patch_hash, reverts_commit) ==
    [patch_hash |-> patch_hash, reverts_commit |-> reverts_commit]

BranchInfos == {CommitInfo(p, t) : p \in PatchHashes, t \in RevertTokens}
\* reverts_commit of an upstream commit is never read
UpstreamInfos == {CommitInfo(p, <<>>) : p \in PatchHashes}

\* ------------------------------------------------- pool.imap_unordered
\* Pool._get_tasks: the commit list cut into chunks of ChunkSize; chunk k
\* holds the list positions ChunkFirst(k)..ChunkLast(n, k).
NumChunks(n) == (n + ChunkSize - 1) \div ChunkSize
ChunkFirst(k) == (k - 1) * ChunkSize + 1
ChunkLast(n, k) == Min(k * ChunkSize, n)

\* the record of what the workers returned, extended by one chunk's results
Returned(old, commits, infos) ==
    [c \in (DOMAIN old) \cup {commits[i] : i \in DOMAIN infos} |->
        IF c \in DOMAIN old THEN old[c]
        ELSE infos[CHOOSE i \in DOMAIN infos : commits[i] = c]]

\* the entries one completed chunk adds to `result`, in the chunk's order
ChunkEntries(commits, k, infos) ==
    [i \in 1..(ChunkLast(Len(commits), k) - ChunkFirst(k) + 1) |->
        [key |-> commits[ChunkFirst(k) + i - 1],
         value |-> infos[ChunkFirst(k) + i - 1]]]

\* ------------------------------------------------------------ inverse_map
RECURSIVE CommitsWithPatch(_, _)
CommitsWithPatch(commits, h) ==
    IF commits = <<>> THEN <<>>
    ELSE IF Head(commits).value.patch_hash = h
         THEN <<Head(commits).key>> \o CommitsWithPatch(Tail(commits), h)
         ELSE CommitsWithPatch(Tail(commits), h)

\* inverse_map without the `if info.patch_hash` test
inverse_map_keeps_empty(commits) ==
    [h \in {commits[i].value.patch_hash : i \in 1..Len(commits)} |->
        CommitsWithPatch(commits, h)]

inverse_map(commits) ==
    [h \in {commits[i].value.patch_hash : i \in 1..Len(commits)} \ {""} |->
        CommitsWithPatch(commits, h)]

\* ------------------------------------------------- duplicates (main)
RECURSIVE Without(_, _)
Without(s, c) ==
    IF s = <<>> THEN <<>>
    ELSE IF Head(s) = c THEN Without(Tail(s), c)
         ELSE <<Head(s)>> \o Without(Tail(s), c)

Duplicates(inv_map) ==
    LET groups == {h \in DOMAIN inv_map : Len(inv_map[h]) > 1}
        members == UNION {Range(inv_map[h]) : h \in groups}
        GroupOf(c) == inv_map[CHOOSE h \in groups : c \in Range(inv_map[h])]
    IN  [c \in members |-> Without(GroupOf(c), c)]

\* ------------------------------------------------ search_full_commit_hash
FirstWithPrefix(commits, commit_hash) ==
    CHOOSE i \in 1..Len(commits) :
        /\ StartsWith(commits[i].key, commit_hash)
        /\ \A j \in 1..(i - 1) : ~StartsWith(commits[j].key, commit_hash)

\* search_full_commit_hash without the prefix scan
search_exact_only(commit_hash, commits) ==
    IF commit_hash \in KeySet(commits) THEN commit_hash ELSE None

search_full_commit_hash(commit_hash, commits) ==
    IF commit_hash \in KeySet(commits) THEN commit_hash
    ELSE IF \E i \in 1..Len(commits) : StartsWith(commits[i].key, commit_hash)
         THEN commits[FirstWithPrefix(commits, commit_hash)].key
         ELSE None

\* ---------------------------------------------------------- build_reverts
\* the loop body with the two searches in the other order (upstream first)
RevertsStepUpstreamFirst(st, i, from_upstream) ==
    LET commit == st.from_branch[i].key
        info == st.from_branch[i].value
        in_branch == search_full_commit_hash(info.reverts_commit, st.from_branch)
        in_upstream == search_full_commit_hash(info.reverts_commit, from_upstream)
        full == IF in_upstream # None THEN in_upstream ELSE in_branch
    IN  IF info.reverts_commit = <<>> THEN st
        ELSE [reverted_from_branch |->
                 IF in_upstream = None /\ in_branch # None
                 THEN Put(st.reverted_from_branch, in_branch, commit)
                 ELSE st.reverted_from_branch,
              reverts_from_upstream |->
                 IF in_upstream # None
                 THEN st.reverts_from_upstream \cup {commit}
                 ELSE st.reverts_from_upstream,
              from_branch |->
                 IF full # None
                 THEN [st.from_branch EXCEPT ![i].value.reverts_commit = full]
                 ELSE st.from_branch]

\* One iteration of the loop over from_branch.items(), on the entry at
\* position i; st holds reverted_from_branch, reverts_from_upstream and
\* from_branch (whose CommitInfo values the loop updates in place).
RevertsStep(st, i, from_upstream) ==
    LET commit == st.from_branch[i].key
        info == st.from_branch[i].value
        in_branch == search_full_commit_hash(info.reverts_commit, st.from_branch)
        in_upstream == search_full_commit_hash(info.reverts_commit, from_upstream)
        full == IF in_branch # None THEN in_branch ELSE in_upstream
    IN  IF info.reverts_commit = <<>> THEN st
        ELSE [reverted_from_branch |->
                 IF in_branch # None
                 THEN Put(st.reverted_from_branch, in_branch, commit)
                 ELSE st.reverted_from_branch,
              reverts_from_upstream |->
                 IF in_branch = None /\ in_upstream # None
                 THEN st.reverts_from_upstream \cup {commit}
                 ELSE st.reverts_from_upstream,
              from_branch |->
                 IF full # None
                 THEN [st.from_branch EXCEPT ![i].value.reverts_commit = full]
                 ELSE st.from_branch]

RECURSIVE RevertsLoop(_, _, _)
RevertsLoop(st, i, from_upstream) ==
    IF i > Len(st.from_branch) THEN st
    ELSE RevertsLoop(RevertsStep(st, i, from_upstream), i + 1, from_upstream)

build_reverts(from_branch, from_upstream) ==
    RevertsLoop([reverted_from_branch |-> EmptyDict,
                 reverts_from_upstream |-> {},
                 from_branch |-> from_branch], 1, from_upstream)

\* ------------------------------------- upstream presence (main, 156-162)
EmptyCommits(branch_map) ==
    Cardinality({i \in 1..Len(branch_map) : branch_map[i].value.patch_hash = ""})

\* the found-upstream map keeping only the first upstream commit of a match
FoundInUpstreamFirstOnly(branch_map, upstream_inv_map) ==
    [c \in {branch_map[i].key : i \in {j \in 1..Len(branch_map) :
                /\ branch_map[j].value.patch_hash # ""
                /\ branch_map[j].value.patch_hash \in DOMAIN upstream_inv_map}} |->
        <<upstream_inv_map[Get(branch_map, c).patch_hash][1]>>]

FoundInUpstream(branch_map, upstream_inv_map) ==
    [c \in {branch_map[i].key : i \in {j \in 1..Len(branch_map) :
                /\ branch_map[j].value.patch_hash # ""
                /\ branch_map[j].value.patch_hash \in DOMAIN upstream_inv_map}} |->
        upstream_inv_map[Get(branch_map, c).patch_hash]]

\* ------------------------------------------------- the report (main)
\* the summary with the empty commits not subtracted
SummaryEmptyKept(total, empty, found, reverted, reverts) ==
    [total_to_apply |-> total,
     empty_commits |-> empty,
     found_in_upstream |-> found,
     reverted_from_branch |-> reverted,
     reverts_from_upstream |-> reverts,
     effective |-> total - found]

Summary(total, empty, found, reverted, reverts) ==
    [total_to_apply |-> total,
     empty_commits |-> empty,
     found_in_upstream |-> found,
     reverted_from_branch |-> reverted,
     reverts_from_upstream |-> reverts,
     effective |-> total - found - empty]

\* `branch_patch_id_map[commit] is None`: the map's values are the CommitInfo
\* objects build_patch_id_map stored, so the test compares one with None.
IsNone(info) == info = None

\* extra_msgs of one commit, in the order the code appends them
ExtraMsgs(commit, branch_map, dups, found, reverted, reverts_upstream) ==
    LET commit_info == Get(branch_map, commit)
    IN  (IF commit \in DOMAIN found
         THEN << <<"found in upstream", found[commit]>> >> ELSE <<>>)
     \o (IF IsNone(commit_info)
         THEN << <<"empty commit">> >> ELSE <<>>)
     \o (IF commit \in DOMAIN dups
         THEN << <<"duplicate of", dups[commit]>> >> ELSE <<>>)
     \o (IF commit \in DOMAIN reverted
         THEN << <<"reverted by", reverted[commit]>> >> ELSE <<>>)
     \o (IF commit_info.reverts_commit # <<>>
         THEN IF commit \in reverts_upstream
              THEN << <<"reverts upstream", commit_info.reverts_commit>> >>
              ELSE IF commit_info.reverts_commit \in DOMAIN reverted
                   THEN << <<"reverts branch", commit_info.reverts_commit>> >>
                   ELSE << <<"reverts unknown", commit_info.reverts_commit>> >>
         ELSE <<>>)

ReportLines(commits, branch_map, dups, found, reverted, reverts_upstream) ==
    LET order == Reversed(commits)
    IN  [i \in 1..Len(order) |->
            [commit |-> order[i],
             extra_msgs |-> ExtraMsgs(order[i], branch_map, dups, found,
                                      reverted, reverts_upstream)]]

\* ===================================================== main(): the pipeline
PipeInit ==
    /\ pc = "diff_branch"
    /\ has_in_branch_not_in_upstream = <<>>
    /\ has_in_upstream_not_in_branch = <<>>
    /\ pending = {}
    /\ branch_patch_id_map = <<>>
    /\ upstream_patch_id_map = <<>>
    /\ duplicates = EmptyDict
    /\ reverted_from_branch = EmptyDict
    /\ reverts_from_upstream = {}
    /\ has_in_brunch_but_found_in_upstream = EmptyDict
    /\ empty_commits = 0
    /\ summary = <<>>
    /\ report = <<>>
    /\ returned = EmptyDict
    /\ raised = {}

ExtractIdle ==
    /\ show_stdout = <<>>
    /\ extracted = [status |-> "none"]

Init == PipeInit /\ ExtractIdle

\* get_commit_symmetric_difference(not_in=upstream, has_in=branch): `git
\* rev-list` answers a list of distinct commits.
DiffBranch ==
    /\ pc = "diff_branch"
    /\ \E commits \in InjectiveSeqs(CommitRefs, MaxBranch) :
          has_in_branch_not_in_upstream' = commits
    /\ pc' = "diff_upstream"
    /\ UNCHANGED <<has_in_upstream_not_in_branch, pending, branch_patch_id_map,
                   upstream_patch_id_map, duplicates, reverted_from_branch,
                   reverts_from_upstream, has_in_brunch_but_found_in_upstream,
                   empty_commits, summary, report, extractVars, returned, raised>>

\* get_commit_symmetric_difference(not_in=branch, has_in=upstream): no commit
\* is on both sides of a symmetric difference.  Then build_patch_id_map starts
\* its pool on the branch list.
DiffUpstream ==
    /\ pc = "diff_upstream"
    /\ \E commits \in InjectiveSeqs(CommitRefs \ Range(has_in_branch_not_in_upstream),
                                    MaxUpstream) :
          has_in_upstream_not_in_branch' = commits
    /\ pending' = 1..NumChunks(Len(has_in_branch_not_in_upstream))
    /\ pc' = "branch_pool"
    /\ UNCHANGED <<has_in_branch_not_in_upstream, branch_patch_id_map,
                   upstream_patch_id_map, duplicates, reverted_from_branch,
                   reverts_from_upstream, has_in_brunch_but_found_in_upstream,
                   empty_commits, summary, report, extractVars, returned, raised>>

\* subprocess.run(..., check=True) of `git rev-list` raises CalledProcessError
DiffFails ==
    /\ pc \in {"diff_branch", "diff_upstream"}
    /\ raised' = raised \cup {<<"get_commit_symmetric_difference", pc>>}
    /\ pc' = "failed"
    /\ UNCHANGED <<has_in_branch_not_in_upstream, has_in_upstream_not_in_branch,
                   pending, branch_patch_id_map, upstream_patch_id_map, duplicates,
                   reverted_from_branch, reverts_from_upstream,
                   has_in_brunch_but_found_in_upstream, empty_commits, summary,
                   report, extractVars, returned>>

\* build_patch_id_map(has_in_branch_not_in_upstream): imap_unordered hands over
\* the results of one chunk, whichever completed, and the loop stores them.
BranchChunkDone ==
    /\ pc = "branch_pool"
    /\ \E k \in pending :
        \E infos \in [ChunkFirst(k)..ChunkLast(Len(has_in_branch_not_in_upstream), k)
                        -> BranchInfos] :
          /\ branch_patch_id_map' = branch_patch_id_map
                \o ChunkEntries(has_in_branch_not_in_upstream, k, infos)
          /\ returned' = Returned(returned, has_in_branch_not_in_upstream, infos)
          /\ pending' = pending \ {k}
    /\ UNCHANGED <<pc, has_in_branch_not_in_upstream, has_in_upstream_not_in_branch,
                   upstream_patch_id_map, duplicates, reverted_from_branch,
                   reverts_from_upstream, has_in_brunch_but_found_in_upstream,
                   empty_commits, summary, report, extractVars, raised>>

\* the pool is drained: inverse_map, duplicates, and the pool on the upstream list
BranchPoolJoin ==
    /\ pc = "branch_pool"
    /\ pending = {}
    /\ duplicates' = Duplicates(inverse_map(branch_patch_id_map))
    /\ pending' = 1..NumChunks(Len(has_in_upstream_not_in_branch))
    /\ pc' = "upstream_pool"
    /\ UNCHANGED <<has_in_branch_not_in_upstream, has_in_upstream_not_in_branch,
                   branch_patch_id_map, upstream_patch_id_map, reverted_from_branch,
                   reverts_from_upstream, has_in_brunch_but_found_in_upstream,
                   empty_commits, summary, report, extractVars, returned, raised>>

UpstreamChunkDone ==
    /\ pc = "upstream_pool"
    /\ \E k \in pending :
        \E infos \in [ChunkFirst(k)..ChunkLast(Len(has_in_upstream_not_in_branch), k)
                        -> UpstreamInfos] :
          /\ upstream_patch_id_map' = upstream_patch_id_map
                \o ChunkEntries(has_in_upstream_not_in_branch, k, infos)
          /\ returned' = Returned(returned, has_in_upstream_not_in_branch, infos)
          /\ pending' = pending \ {k}
    /\ UNCHANGED <<pc, has_in_branch_not_in_upstream, has_in_upstream_not_in_branch,
                   branch_patch_id_map, duplicates, reverted_from_branch,
                   reverts_from_upstream, has_in_brunch_but_found_in_upstream,
                   empty_commits, summary, report, extractVars, raised>>

\* get_commit_patch_id raises in a worker (CalledProcessError of `git show` or
\* `git patch-id`, IndexError of the header parse): the chunk's result is the
\* exception, which the iteration in build_patch_id_map re-raises; nothing
\* catches it.
PoolCommits ==
    IF pc = "branch_pool" THEN has_in_branch_not_in_upstream
    ELSE has_in_upstream_not_in_branch

\* a worker's exception caught and the chunk skipped
ChunkRaisesSwallowed ==
    /\ pc \in {"branch_pool", "upstream_pool"}
    /\ \E k \in pending :
        /\ \E i \in ChunkFirst(k)..ChunkLast(Len(PoolCommits), k) :
              raised' = raised \cup {<<"get_commit_patch_id", PoolCommits[i]>>}
        /\ pending' = pending \ {k}
    /\ UNCHANGED <<pc, has_in_branch_not_in_upstream, has_in_upstream_not_in_branch,
                   branch_patch_id_map, upstream_patch_id_map, duplicates,
                   reverted_from_branch, reverts_from_upstream,
                   has_in_brunch_but_found_in_upstream, empty_commits, summary,
                   report, extractVars, returned>>

ChunkRaises ==
    /\ pc \in {"branch_pool", "upstream_pool"}
    /\ \E k \in pending :
        \E i \in ChunkFirst(k)..ChunkLast(Len(PoolCommits), k) :
          raised' = raised \cup {<<"get_commit_patch_id", PoolCommits[i]>>}
    /\ pc' = "failed"
    /\ UNCHANGED <<has_in_branch_not_in_upstream, has_in_upstream_not_in_branch,
                   pending, branch_patch_id_map, upstream_patch_id_map, duplicates,
                   reverted_from_branch, reverts_from_upstream,
                   has_in_brunch_but_found_in_upstream, empty_commits, summary,
                   report, extractVars, returned>>

\* the upstream pool is drained: build_reverts (which rewrites reverts_commit
\* of the branch CommitInfo objects it resolves)
UpstreamPoolJoin ==
    /\ pc = "upstream_pool"
    /\ pending = {}
    /\ LET r == build_reverts(branch_patch_id_map, upstream_patch_id_map)
       IN  /\ reverted_from_branch' = r.reverted_from_branch
           /\ reverts_from_upstream' = r.reverts_from_upstream
           /\ branch_patch_id_map' = r.from_branch
    /\ pc' = "presence"
    /\ UNCHANGED <<has_in_branch_not_in_upstream, has_in_upstream_not_in_branch,
                   pending, upstream_patch_id_map, duplicates,
                   has_in_brunch_but_found_in_upstream, empty_commits, summary,
                   report, extractVars, returned, raised>>

\* the loop that counts the empty commits and fills
\* has_in_brunch_but_found_in_upstream
UpstreamPresence ==
    /\ pc = "presence"
    /\ empty_commits' = EmptyCommits(branch_patch_id_map)
    /\ has_in_brunch_but_found_in_upstream' =
          FoundInUpstream(branch_patch_id_map, inverse_map(upstream_patch_id_map))
    /\ pc' = "print"
    /\ UNCHANGED <<has_in_branch_not_in_upstream, has_in_upstream_not_in_branch,
                   pending, branch_patch_id_map, upstream_patch_id_map, duplicates,
                   reverted_from_branch, reverts_from_upstream, summary, report,
                   extractVars, returned, raised>>

\* the summary block and one line per branch commit
PrintReport ==
    /\ pc = "print"
    /\ summary' = Summary(Len(has_in_branch_not_in_upstream), empty_commits,
                          Cardinality(DOMAIN has_in_brunch_but_found_in_upstream),
                          Cardinality(DOMAIN reverted_from_branch),
                          Cardinality(reverts_from_upstream))
    /\ report' = ReportLines(has_in_branch_not_in_upstream, branch_patch_id_map,
                             duplicates, has_in_brunch_but_found_in_upstream,
                             reverted_from_branch, reverts_from_upstream)
    /\ pc' = "done"
    /\ UNCHANGED <<has_in_branch_not_in_upstream, has_in_upstream_not_in_branch,
                   pending, branch_patch_id_map, upstream_patch_id_map, duplicates,
                   reverted_from_branch, reverts_from_upstream,
                   has_in_brunch_but_found_in_upstream, empty_commits, extractVars, returned, raised>>

Next ==
    \/ DiffBranch
    \/ DiffUpstream
    \/ DiffFails
    \/ BranchChunkDone
    \/ BranchPoolJoin
    \/ UpstreamChunkDone
    \/ ChunkRaises
    \/ UpstreamPoolJoin
    \/ UpstreamPresence
    \/ PrintReport

Spec == Init /\ [][Next]_vars

\* ============================================ get_commit_patch_id: parsing
\* Bytes are sequences of one-character strings; "xFF" is a byte that is not
\* valid UTF-8.
WhiteSpace == {" "}
WordChars == {"a", "b", "c", "d", "e", "i", "m", "o", "r", "s", "t", "v",
              "A", "D", "M", "R", "S", "T", "0", "1", "2", "3", "5", "9"}

RECURSIVE LStrip(_, _)
LStrip(s, chars) ==
    IF s # <<>> /\ Head(s) \in chars THEN LStrip(Tail(s), chars) ELSE s

RECURSIVE RStrip(_, _)
RStrip(s, chars) ==
    IF s # <<>> /\ s[Len(s)] \in chars
    THEN RStrip(SubSeq(s, 1, Len(s) - 1), chars) ELSE s

\* bytes.strip(chars): leading and trailing bytes that are in `chars` removed
Strip(s, chars) == RStrip(LStrip(s, chars), chars)

\* bytes.decode(errors='replace').replace('\uFFFD', '?')
Decode(s) == [i \in 1..Len(s) |-> IF s[i] = "xFF" THEN "?" ELSE s[i]]

RECURSIVE DropEmpty(_)
DropEmpty(ls) ==
    IF ls = <<>> THEN <<>>
    ELSE IF Head(ls) = <<>> THEN DropEmpty(Tail(ls))
         ELSE <<Head(ls)>> \o DropEmpty(Tail(ls))

\* lines 47-48: every line stripped, the empty ones dropped
NonEmptyLines(stdout) ==
    DropEmpty([i \in 1..Len(stdout) |-> Strip(stdout[i], WhiteSpace)])

HasAt(s, p, lit) ==
    /\ p + Len(lit) - 1 <= Len(s)
    /\ \A i \in 1..Len(lit) : s[p + i - 1] = lit[i]

\* AUTHOR_EMAIL_REGEX = ^.*<(.+@.+)>$ : the positions of a "<" the match can
\* open its group at; the greedy .* takes the last one
EmailStarts(line) ==
    {i \in 1..Len(line) :
        /\ line[i] = "<"
        /\ line[Len(line)] = ">"
        /\ \E j \in (i + 2)..(Len(line) - 2) : line[j] = "@"}

AuthorOf(line) ==
    IF EmailStarts(line) # {}
    THEN LET i == CHOOSE x \in EmailStarts(line) : \A y \in EmailStarts(line) : y <= x
         IN  SubSeq(line, i + 1, Len(line) - 1)
    ELSE line

\* line 56
DateOf(line) ==
    Strip(Strip(Strip(line, WhiteSpace),
                {"D", "a", "t", "e", ":", " "}),
          {" ", "+", "0"})

\* (\w+) from position p: the longest run of word characters
RECURSIVE WordAt(_, _)
WordAt(s, p) ==
    IF p <= Len(s) /\ s[p] \in WordChars THEN <<s[p]>> \o WordAt(s, p + 1) ELSE <<>>

Everts == <<"e", "v", "e", "r", "t", "s", " ">>
CommitSp == <<"c", "o", "m", "m", "i", "t", " ">>

\* REVERTS_REGEX = [Rr]everts (?:commit )?(\w+) tried at position p: the
\* captured token, <<>> when there is no match at p
RevertsAt(s, p) ==
    IF s[p] \in {"R", "r"} /\ HasAt(s, p + 1, Everts)
    THEN LET q == p + 1 + Len(Everts)
         IN  IF HasAt(s, q, CommitSp) /\ WordAt(s, q + Len(CommitSp)) # <<>>
             THEN WordAt(s, q + Len(CommitSp))
             ELSE WordAt(s, q)
    ELSE <<>>

\* REVERTS_REGEX.search(line): the leftmost match
RevertsSearch(line) ==
    LET hits == {p \in 1..Len(line) : RevertsAt(line, p) # <<>>}
    IN  IF hits = {} THEN <<>>
        ELSE RevertsAt(line, CHOOSE p \in hits : \A q \in hits : p <= q)

\* lines 59-63: the last line with a match wins
RECURSIVE RevertsCommit(_, _)
RevertsCommit(lines, sofar) ==
    IF lines = <<>> THEN sofar
    ELSE RevertsCommit(Tail(lines),
                       IF RevertsSearch(Head(lines)) # <<>>
                       THEN RevertsSearch(Head(lines)) ELSE sofar)

\* `git patch-id` answers a patch id ("" for no output) or fails
PatchIdAnswers == PatchHashes \cup {"CalledProcessError"}

\* get_commit_patch_id from line 47 on, `git show` having printed stdout: the
\* exception raised or the CommitInfo returned
get_commit_patch_id(stdout, patch_id_answer) ==
    LET lines == NonEmptyLines(stdout)
    IN  IF Len(lines) < 4
        THEN [status |-> "IndexError"]
        ELSE IF patch_id_answer = "CalledProcessError"
        THEN [status |-> "CalledProcessError"]
        ELSE [status |-> "returned",
              author |-> Decode(AuthorOf(lines[2])),
              date |-> Decode(DateOf(lines[3])),
              message_first_line |-> Decode(lines[4]),
              patch_hash |-> patch_id_answer,
              reverts_commit |-> RevertsCommit(lines, <<>>)]

\* ------------------------------------------------- the outputs of `git show`
CommitLine == <<"c", "o", "m", "m", "i", "t", " ", "1", "2">>
AuthorLines == {<<"A", "u", "t", "h", "o", "r", ":", " ", "A", " ", "<", "a", "@", "b", ">">>,
                <<"A", "u", "t", "h", "o", "r", ":", " ", "A">>,
                <<"A", "u", "t", "h", "o", "r", ":", " ", "xFF", " ", "<", "a", "@", "b", ">">>}
DateLabel == <<"D", "a", "t", "e", ":">>
WeekDays == {<<"M", "o", "n">>, <<"S", "a", "t">>}
Years == {<<"2", "0", "1", "9">>, <<"2", "0", "2", "0">>, <<"2", "0", "0", "0">>}
\* the timestamp of a date header, e.g. "Mon 2020" (the month, day and time
\* between the two are left out)
Timestamps == {d \o <<" ">> \o y : d \in WeekDays, y \in Years}
UtcOffsets == {<<"+", "0", "0", "0", "0">>, <<"+", "0", "3", "0", "0">>, <<"-", "0", "5", "0", "0">>}
MaxSpaces == 3
Spaces(n) == [i \in 1..n |-> " "]
DateLine(n, stamp, offset) == DateLabel \o Spaces(n) \o stamp \o <<" ">> \o offset
DateLines == {DateLine(n, st, off) :
                n \in 1..MaxSpaces, st \in Timestamps, off \in UtcOffsets}
\* the message, indented as `git show` prints it, then the diff
Bodies == {<< >>,
           << <<>>, <<" ", " ", " ", " ", "A", " ", "b">> >>,
           << <<>>, <<" ", " ", " ", " ", "R", "e", "v", "e", "r", "t", " ", "\"", "A", "\"">>,
              <<>>, <<" ", " ", " ", " ", "T", "h", "i", "s", " ", "r", "e", "v", "e", "r", "t", "s", " ", "c", "o", "m", "m", "i", "t", " ", "1", "2", ".">> >>,
           << <<>>, <<" ", " ", " ", " ", "r", "e", "v", "e", "r", "t", "s", " ", "1">>,
              <<>>, <<"d", "i", "f", "f", " ", "a", " ", "b">> >>}

\* `git show <commit>` prints the commit line, the author, the date, then the
\* message and the diff, either of which can be empty
ShowOutputs ==
    {<<CommitLine, a, d>> \o b : a \in AuthorLines, d \in DateLines, b \in Bodies}

\* the pipeline at rest, one output of `git show` at hand
InitExtract ==
    /\ PipeInit
    /\ show_stdout \in ShowOutputs
    /\ extracted = [status |-> "none"]

\* get_commit_patch_id on one commit, `git show` having printed show_stdout
GetCommitPatchId ==
    /\ extracted.status = "none"
    /\ \E answer \in PatchIdAnswers :
          extracted' = get_commit_patch_id(show_stdout, answer)
    /\ UNCHANGED <<show_stdout, pipeVars>>

\* subprocess.run(["git", "show", commit], check=True) raises
ShowRaises ==
    /\ extracted.status = "none"
    /\ extracted' = [status |-> "CalledProcessError"]
    /\ UNCHANGED <<show_stdout, pipeVars>>

ExtractNext == GetCommitPatchId \/ ShowRaises

SpecExtract == InitExtract /\ [][ExtractNext]_vars

\* ================================================================ claims
BranchCommits == Range(has_in_branch_not_in_upstream)
UpstreamCommits == Range(has_in_upstream_not_in_branch)
\* what the gateway answered for a commit
Fingerprint(c) == returned[c].patch_hash
Token(c) == returned[c].reverts_commit
\* the position of a branch commit in the iteration order of the branch map
Pos(c) == CHOOSE i \in 1..Len(branch_patch_id_map) : branch_patch_id_map[i].key = c
Line(c) == report[CHOOSE i \in 1..Len(report) : report[i].commit = c]
NoRepeats(s) == \A i, j \in 1..Len(s) : i # j => s[i] # s[j]

DuplicatesBuilt == pc \in {"upstream_pool", "presence", "print", "done"}
RevertsBuilt == pc \in {"presence", "print", "done"}
PresenceBuilt == pc \in {"print", "done"}

\* C1: after the correlation step a branch commit with non-empty fingerprint F
\* is a key of the found-upstream map iff F is a key of the upstream
\* fingerprint index, its list is that index's list for F (exactly the upstream
\* commits with fingerprint F, once each); a branch commit with an empty
\* fingerprint is never a key.
C1_FoundUpstreamCompleteness ==
    PresenceBuilt =>
        LET found == has_in_brunch_but_found_in_upstream
            index == inverse_map(upstream_patch_id_map)
        IN  /\ DOMAIN found \subseteq BranchCommits
            /\ \A c \in BranchCommits :
                /\ Fingerprint(c) = "" => c \notin DOMAIN found
                /\ Fingerprint(c) # "" =>
                    /\ c \in DOMAIN found <=> Fingerprint(c) \in DOMAIN index
                    /\ c \in DOMAIN found <=>
                          \E u \in UpstreamCommits : Fingerprint(u) = Fingerprint(c)
                    /\ c \in DOMAIN found =>
                        /\ found[c] = index[Fingerprint(c)]
                        /\ NoRepeats(found[c])
                        /\ Range(found[c]) =
                             {u \in UpstreamCommits : Fingerprint(u) = Fingerprint(c)}

C1_Witness ==
    /\ pc = "done"
    /\ \E c \in DOMAIN has_in_brunch_but_found_in_upstream :
          Len(has_in_brunch_but_found_in_upstream[c]) = 2
    /\ \E c \in BranchCommits :
          Fingerprint(c) # "" /\ c \notin DOMAIN has_in_brunch_but_found_in_upstream

\* C2: the duplicate map is symmetric, no commit is in its own list, and a
\* branch commit is a key exactly when another branch commit shares its
\* non-empty fingerprint, its list being all the other commits of the group.
C2_DuplicateSymmetry ==
    DuplicatesBuilt =>
        /\ DOMAIN duplicates \subseteq BranchCommits
        /\ \A c1 \in DOMAIN duplicates : \A c2 \in Range(duplicates[c1]) :
              c2 \in DOMAIN duplicates /\ c1 \in Range(duplicates[c2])
        /\ \A c \in DOMAIN duplicates : c \notin Range(duplicates[c])
        /\ \A c \in BranchCommits :
              c \in DOMAIN duplicates <=>
                 /\ Fingerprint(c) # ""
                 /\ \E d \in BranchCommits \ {c} : Fingerprint(d) = Fingerprint(c)
        /\ \A c \in DOMAIN duplicates :
              /\ NoRepeats(duplicates[c])
              /\ Range(duplicates[c]) =
                    {d \in BranchCommits \ {c} : Fingerprint(d) = Fingerprint(c)}

C2_Witness ==
    /\ pc = "done"
    /\ \E c \in DOMAIN duplicates : Len(duplicates[c]) = 2

\* a revert token matches a commit exactly or as a prefix
Matches(t, c) == StartsWith(c, t)
MatchesBoth(R) ==
    /\ Token(R) # <<>>
    /\ \E b \in BranchCommits : Matches(Token(R), b)
    /\ \E u \in UpstreamCommits : Matches(Token(R), u)

\* C3 as stated: a branch commit R whose token matches a branch commit and an
\* upstream commit is not in the reverts-from-upstream set, and the matched
\* branch commit is a key of the reverted-from-branch map with R as reverter.
C3_BranchMatchWinsWithThisReverter ==
    RevertsBuilt =>
        \A R \in BranchCommits : MatchesBoth(R) =>
            /\ R \notin reverts_from_upstream
            /\ \E T \in BranchCommits \cap DOMAIN reverted_from_branch :
                  Matches(Token(R), T) /\ reverted_from_branch[T] = R

\* C3 amended: as above, but the reverter recorded for the matched branch commit
\* is R or a branch commit iterated after R whose token matches the same target
\* (the last writer wins).
C3_BranchMatchWins ==
    RevertsBuilt =>
        \A R \in BranchCommits : MatchesBoth(R) =>
            /\ R \notin reverts_from_upstream
            /\ \E T \in BranchCommits \cap DOMAIN reverted_from_branch :
                  /\ Matches(Token(R), T)
                  /\ Token(R) \in BranchCommits => T = Token(R)
                  /\ \/ reverted_from_branch[T] = R
                     \/ /\ reverted_from_branch[T] \in BranchCommits
                        /\ Pos(reverted_from_branch[T]) > Pos(R)
                        /\ Token(reverted_from_branch[T]) # <<>>
                        /\ Matches(Token(reverted_from_branch[T]), T)

C3_Witness ==
    /\ pc = "done"
    /\ \E R \in BranchCommits :
          /\ MatchesBoth(R)
          /\ Token(R) \notin BranchCommits
          /\ \E T \in DOMAIN reverted_from_branch : reverted_from_branch[T] = R

\* the commit a token resolves to in a set of commits, iterated in `order`:
\* the exact match if there is one, else the first commit it is a prefix of
ResolvesTo(t, T, order) ==
    /\ T \in Range(order)
    /\ Matches(t, T)
    /\ t \in Range(order) => T = t
    /\ t \notin Range(order) =>
          \A i, j \in 1..Len(order) :
              (order[j] = T /\ i < j) => ~Matches(t, order[i])

RevertKinds == {"reverts branch", "reverts upstream", "reverts unknown"}
RevertMsgs(c) ==
    {i \in 1..Len(Line(c).extra_msgs) : Line(c).extra_msgs[i][1] \in RevertKinds}
TheRevertMsg(c) == Line(c).extra_msgs[CHOOSE i \in RevertMsgs(c) : TRUE]
HasMsg(c, msg) == \E i \in 1..Len(Line(c).extra_msgs) : Line(c).extra_msgs[i] = msg

\* C4: on the report, a branch commit R with a revert token carries exactly one
\* revert annotation: "reverts branch T" when the token resolved to the branch
\* commit T (whose line then carries "reverted by" a branch commit whose token
\* resolved to T), "reverts upstream U" when it resolved to the upstream commit
\* U, "reverts unknown <token>" when it matched neither set; a commit without a
\* token carries none.
C4_RevertLabelling ==
    pc = "done" =>
        \A R \in BranchCommits :
            /\ Token(R) = <<>> => RevertMsgs(R) = {}
            /\ Token(R) # <<>> =>
                /\ Cardinality(RevertMsgs(R)) = 1
                /\ (\E b \in BranchCommits : Matches(Token(R), b)) =>
                      \E T \in BranchCommits :
                          /\ ResolvesTo(Token(R), T, Keys(branch_patch_id_map))
                          /\ TheRevertMsg(R) = <<"reverts branch", T>>
                          /\ \E R2 \in BranchCommits :
                                /\ HasMsg(T, <<"reverted by", R2>>)
                                /\ Token(R2) # <<>>
                                /\ ResolvesTo(Token(R2), T, Keys(branch_patch_id_map))
                /\ (/\ ~\E b \in BranchCommits : Matches(Token(R), b)
                    /\ \E u \in UpstreamCommits : Matches(Token(R), u)) =>
                      \E U \in UpstreamCommits :
                          /\ ResolvesTo(Token(R), U, Keys(upstream_patch_id_map))
                          /\ TheRevertMsg(R) = <<"reverts upstream", U>>
                /\ (~\E c \in BranchCommits \cup UpstreamCommits : Matches(Token(R), c)) =>
                      TheRevertMsg(R) = <<"reverts unknown", Token(R)>>

\* scenario C (a short token resolved to a branch commit, "reverted by" on the
\* target) together with a revert of an upstream commit
C4_Witness ==
    /\ pc = "done"
    /\ \E R, T \in BranchCommits :
          /\ R # T
          /\ Token(R) \notin BranchCommits
          /\ HasMsg(R, <<"reverts branch", T>>)
          /\ HasMsg(T, <<"reverted by", R>>)
    /\ \E R \in BranchCommits, U \in UpstreamCommits :
          HasMsg(R, <<"reverts upstream", U>>)

\* a token that matches neither set is reported as unknown
C4_WitnessUnknown ==
    /\ pc = "done"
    /\ \E R \in BranchCommits : HasMsg(R, <<"reverts unknown", Token(R)>>)

\* C5: a branch commit with an empty fingerprint is counted in the empty-commit
\* counter and its line carries "empty commit"; a commit with a non-empty
\* fingerprint never carries it.
C5_EmptyCommitAnnotation ==
    pc = "done" =>
        /\ summary.empty_commits =
              Cardinality({c \in BranchCommits : Fingerprint(c) = ""})
        /\ \A c \in BranchCommits :
              Fingerprint(c) = "" <=> HasMsg(c, <<"empty commit">>)

\* what is true of the code: the counter is right, the annotation never printed
C5_CounterOnly ==
    pc = "done" =>
        /\ summary.empty_commits =
              Cardinality({c \in BranchCommits : Fingerprint(c) = ""})
        /\ \A c \in BranchCommits : ~HasMsg(c, <<"empty commit">>)

\* the run in which both pools hand their chunks over in list order
InListOrder(commits) ==
    [i \in 1..Len(commits) |-> [key |-> commits[i], value |-> returned[commits[i]]]]

ListOrderRun ==
    LET upstream_map == InListOrder(has_in_upstream_not_in_branch)
        dups == Duplicates(inverse_map(InListOrder(has_in_branch_not_in_upstream)))
        r == build_reverts(InListOrder(has_in_branch_not_in_upstream), upstream_map)
        found == FoundInUpstream(r.from_branch, inverse_map(upstream_map))
    IN  [summary |-> Summary(Len(has_in_branch_not_in_upstream),
                             EmptyCommits(r.from_branch),
                             Cardinality(DOMAIN found),
                             Cardinality(DOMAIN r.reverted_from_branch),
                             Cardinality(r.reverts_from_upstream)),
         report |-> ReportLines(has_in_branch_not_in_upstream, r.from_branch, dups,
                                found, r.reverted_from_branch,
                                r.reverts_from_upstream)]

\* C6: for fixed commit lists and fixed gateway answers the summary and every
\* report line are the same for every order in which the pool's chunks
\* complete, i.e. the same as in the run that completes them in list order.
C6_Idempotence ==
    pc = "done" =>
        /\ summary = ListOrderRun.summary
        /\ report = ListOrderRun.report

\* C7: once a gateway call has raised, the run is in the failure state, neither
\* the summary nor a report line is or was emitted, and no further gateway call
\* is made (so exactly one call has raised); the failure state is entered only
\* that way.
C7_GatewayFailureIsFatal ==
    /\ raised # {} =>
          /\ pc = "failed"
          /\ summary = <<>>
          /\ report = <<>>
          /\ Cardinality(raised) = 1
    /\ pc = "failed" => raised # {}
    /\ (summary # <<>> \/ report # <<>>) =>
          /\ KeySet(branch_patch_id_map) = BranchCommits
          /\ KeySet(upstream_patch_id_map) = UpstreamCommits

\* a task of the second chunk raises after the first chunk was stored
C7_Witness ==
    /\ pc = "failed"
    /\ branch_patch_id_map # <<>>
    /\ \E c \in BranchCommits : <<"get_commit_patch_id", c>> \in raised

\* C9: in a completed run effective = total - foundUpstream - empty, with total
\* the number of branch commits, foundUpstream the size of the found-upstream
\* map (the branch commits whose non-empty fingerprint an upstream commit has)
\* and empty the number of branch commits with an empty fingerprint; and
\* empty + foundUpstream <= total.  Duplicates are not subtracted.
C9_CounterIdentity ==
    pc = "done" =>
        LET total == Len(has_in_branch_not_in_upstream)
            empty == Cardinality({c \in BranchCommits : Fingerprint(c) = ""})
            found == Cardinality({c \in BranchCommits :
                        /\ Fingerprint(c) # ""
                        /\ \E u \in UpstreamCommits : Fingerprint(u) = Fingerprint(c)})
        IN  /\ summary.total_to_apply = total
            /\ summary.empty_commits = empty
            /\ summary.found_in_upstream = found
            /\ found = Cardinality(DOMAIN has_in_brunch_but_found_in_upstream)
            /\ summary.effective = total - found - empty
            /\ empty + found <= total
            /\ summary.effective >= 0

\* an empty commit and a pair of duplicates that stays effective
C9_Witness ==
    /\ pc = "done"
    /\ summary.empty_commits = 1
    /\ summary.found_in_upstream = 0
    /\ summary.effective = 2
    /\ DOMAIN duplicates # {}

\* the header of a `git show` output lacks a line (author, date or subject)
ShortHeader == Len(NonEmptyLines(show_stdout)) < 4

\* C8: extraction never raises on a patch text: also for one with fewer
\* non-empty lines than the header has, `git show` and `git patch-id` having
\* answered, it returns a record, the absent fields being empty strings.
C8_ExtractionNeverRaises ==
    extracted.status \in {"returned", "IndexError"} =>
        /\ extracted.status = "returned"
        /\ ShortHeader => extracted.message_first_line = <<>>

\* what is true of the code: it returns exactly when the text has four
\* non-empty lines and raises IndexError otherwise
C8_RaisesOnShortHeader ==
    extracted.status \in {"returned", "IndexError"} =>
        (extracted.status = "IndexError" <=> ShortHeader)

\* C10: for a date header "Date:" + spaces + <timestamp> + " " + <UTC offset>
\* the date field is <timestamp>: nothing of the timestamp is removed and
\* nothing of the offset is left.
C10_DateIsTimestamp ==
    extracted.status = "returned" =>
        \A n \in 1..MaxSpaces, stamp \in Timestamps, offset \in UtcOffsets :
            NonEmptyLines(show_stdout)[3] = DateLine(n, stamp, offset) =>
                extracted.date = stamp

====
